---- MODULE Spec2Model ----
(***************************************************************************)
(* Model of the web3 gateway's Eth pub-sub registry and notification       *)
(* handler (gateway/src/impls/eth_pubsub.rs) and of the block-reference    *)
(* handling of the Eth query methods (gateway/src/impls/eth.rs).           *)
(***************************************************************************)
EXTENDS Integers, Sequences, FiniteSets, TLC

\* ------------------------------------------------------------------------
\* Bounds
\* ------------------------------------------------------------------------
MaxSubs == 2       \* subscriptions registered over the registry's lifetime
MaxBlock == 2      \* block numbers are 0..MaxBlock
MaxHeaders == 2    \* headers carried by one notify_heads invocation
MaxSink == 1       \* a notification starts while every sink holds fewer events

VARIABLES
    heads,      \* heads_subscribers: set of subscription ids (id -> its sink)
    logs,       \* logs_subscribers: subscription id -> stored EthFilter
    nextId,     \* ids issued so far are 1..nextId-1
    subRes,     \* what the last subscribe call did to its Subscriber
    us,         \* the unsubscribe call in flight
    unsubRet,   \* value returned by the last unsubscribe call
    unsubTrue,  \* ids for which an unsubscribe call has returned Ok(true)
    nh,         \* the notify_heads invocation in flight; `after` holds the
                \* ids whose unsubscribe had returned Ok(true) when it began
    nhSpawned,  \* delivery tasks spawned by the current/last notify_heads
    nl,         \* the notify_logs invocation in flight
    nlQuery,    \* last filter notify_logs executed against the client
    nlSpawned,  \* delivery tasks spawned by the current/last notify_logs
    sinks,      \* subscription id -> events its sink has received, in order
    warned,     \* ids for which "Unable to send notification" was logged
    q           \* the Eth query call in flight / its outcome

regVars == <<heads, logs, nextId, subRes, us, unsubRet, unsubTrue,
             nh, nhSpawned, nl, nlQuery, nlSpawned, sinks, warned>>
vars == <<heads, logs, nextId, subRes, us, unsubRet, unsubTrue,
          nh, nhSpawned, nl, nlQuery, nlSpawned, sinks, warned, q>>

\* ------------------------------------------------------------------------
\* Block ids and filters
\* ------------------------------------------------------------------------
\* ethcore::ids::BlockId, restricted to the variants the handlers match on
Number(n) == [t |-> "Number", n |-> n]
Latest == [t |-> "Latest", n |-> 0]
Earliest == [t |-> "Earliest", n |-> 0]

BlockNums == 0..MaxBlock
NumberIds == {Number(n) : n \in BlockNums}

\* bounds a stored log filter may carry
FilterBounds == {Latest} \cup NumberIds
\* EthFilter, reduced to the two fields notify_logs rewrites
Filters == [from_block : FilterBounds, to_block : FilterBounds]

\* ------------------------------------------------------------------------
\* Subscribers<T> (parity_rpc::v1::helpers::Subscribers)
\* ------------------------------------------------------------------------
\* ids that unsubscribe may be called with; 0 is an id the registry never
\* issues (a numeric or unparsable SubscriptionId)
Ids == 0..MaxSubs

\* ids a caller of unsubscribe can hold when `n` is the next id: those the
\* registry has handed out, and 0; ids are 64-bit random tokens, so no caller
\* presents an id before it is issued
KnownIds(n) == {0} \cup 1..(n - 1)

\* NextId handing out the same id every time
NextIdReused(n) == 1

\* Subscribers::next_id: the id given to the next pushed subscriber
NextId(n) == n

\* Subscribers::values() order: position i (1-based) of the id set
RECURSIVE SortedIds(_)
SortedIds(S) ==
    IF S = {} THEN <<>>
    ELSE LET m == CHOOSE x \in S : \A y \in S : x <= y
         IN <<m>> \o SortedIds(S \ {m})

\* ------------------------------------------------------------------------
\* subscribe
\* ------------------------------------------------------------------------
Kinds == {"NewHeads", "Logs", "NewPendingTransactions", "Syncing"}

NoFilter == [from_block |-> Latest, to_block |-> Latest]
\* Trailing<pubsub::Params> after .into(): None, Some(Params::None),
\* Some(Params::Logs(filter))
Absent == [t |-> "Absent", filter |-> NoFilter]
ParamsNone == [t |-> "None", filter |-> NoFilter]
ParamsLogs(f) == [t |-> "Logs", filter |-> f]

\* SubscribeArm with NewHeads registered whatever the parameters
SubscribeArmHeadsAnyParams(kind, params) ==
    IF kind = "NewHeads" THEN "push_heads"
    ELSE IF kind = "Logs" /\ params.t = "Logs" THEN "push_logs"
    ELSE IF kind = "Logs" THEN "InvalidParams"
    ELSE IF kind = "NewPendingTransactions" /\ params.t = "Absent" THEN "noop"
    ELSE IF kind = "NewPendingTransactions" THEN "InvalidParams"
    ELSE "Unimplemented"

\* SubscribeArm with the catch-all arm answering InvalidParams and the
\* newPendingTransactions arm accepting parameters
SubscribeArmNoCatchAll(kind, params) ==
    IF kind = "NewHeads" /\ params.t = "Absent" THEN "push_heads"
    ELSE IF kind = "NewHeads" THEN "InvalidParams"
    ELSE IF kind = "Logs" /\ params.t = "Logs" THEN "push_logs"
    ELSE IF kind = "Logs" THEN "InvalidParams"
    ELSE IF kind = "NewPendingTransactions" THEN "noop"
    ELSE "InvalidParams"

\* SubscribeArm with newPendingTransactions registered as a head subscriber
SubscribeArmPendingAsHeads(kind, params) ==
    IF kind = "NewHeads" /\ params.t = "Absent" THEN "push_heads"
    ELSE IF kind = "NewHeads" THEN "InvalidParams"
    ELSE IF kind = "Logs" /\ params.t = "Logs" THEN "push_logs"
    ELSE IF kind = "Logs" THEN "InvalidParams"
    ELSE IF kind = "NewPendingTransactions" /\ params.t = "Absent"
    THEN "push_heads"
    ELSE IF kind = "NewPendingTransactions" THEN "InvalidParams"
    ELSE "Unimplemented"

\* SubscribeArm with Logs registered whatever the parameters
SubscribeArmLogsAnyParams(kind, params) ==
    IF kind = "NewHeads" /\ params.t = "Absent" THEN "push_heads"
    ELSE IF kind = "NewHeads" THEN "InvalidParams"
    ELSE IF kind = "Logs" THEN "push_logs"
    ELSE IF kind = "NewPendingTransactions" /\ params.t = "Absent" THEN "noop"
    ELSE IF kind = "NewPendingTransactions" THEN "InvalidParams"
    ELSE "Unimplemented"

\* the arm of `match (kind, params.into())` that is taken
SubscribeArm(kind, params) ==
    IF kind = "NewHeads" /\ params.t = "Absent" THEN "push_heads"
    ELSE IF kind = "NewHeads" THEN "InvalidParams"
    ELSE IF kind = "Logs" /\ params.t = "Logs" THEN "push_logs"
    ELSE IF kind = "Logs" THEN "InvalidParams"
    ELSE IF kind = "NewPendingTransactions" /\ params.t = "Absent" THEN "noop"
    ELSE IF kind = "NewPendingTransactions" THEN "InvalidParams"
    ELSE "Unimplemented"

\* CanWriteHeads with writers not excluded by the dispatcher's read guard
CanWriteHeadsUnguarded == TRUE

\* CanWriteLogs for one lock over both collections that unsubscribe keeps
\* from its first removal to its return: not reentrant, the second write()
\* waits for the caller's own guard
CanWriteLogsSingleLock == nl.pc = "idle" /\ nh.pc = "idle" /\ us.pc = "idle"

\* parking_lot::RwLock: write() is granted when no reader holds the lock
CanWriteHeads == nh.pc = "idle"
CanWriteLogs == nl.pc = "idle"

Subscribe(kind, params) ==
    LET arm == SubscribeArm(kind, params) IN
    /\ \/ /\ arm = "push_heads"
          /\ nextId <= MaxSubs
          /\ CanWriteHeads
          /\ heads' = heads \cup {NextId(nextId)}
          /\ nextId' = nextId + 1
          /\ subRes' = [kind |-> kind, params |-> params.t,
                        out |-> "assigned", id |-> NextId(nextId)]
          /\ UNCHANGED logs
       \/ /\ arm = "push_logs"
          /\ nextId <= MaxSubs
          /\ CanWriteLogs
          /\ logs' = [i \in DOMAIN logs \cup {NextId(nextId)} |->
                        IF i \in DOMAIN logs THEN logs[i] ELSE params.filter]
          /\ nextId' = nextId + 1
          /\ subRes' = [kind |-> kind, params |-> params.t,
                        out |-> "assigned", id |-> NextId(nextId)]
          /\ UNCHANGED heads
       \/ /\ arm = "noop"
          /\ subRes' = [kind |-> kind, params |-> params.t,
                        out |-> "dropped", id |-> 0]
          /\ UNCHANGED <<heads, logs, nextId>>
       \/ /\ arm \in {"InvalidParams", "Unimplemented"}
          /\ subRes' = [kind |-> kind, params |-> params.t,
                        out |-> arm, id |-> 0]
          /\ UNCHANGED <<heads, logs, nextId>>
    /\ UNCHANGED <<us, unsubRet, unsubTrue, nh, nhSpawned, nl, nlQuery,
                   nlSpawned, sinks,
                   warned, q>>

\* ------------------------------------------------------------------------
\* unsubscribe
\* ------------------------------------------------------------------------
Ok(v) == [t |-> "Ok", v |-> v]
Err(e) == [t |-> "Err", v |-> FALSE]   \* jsonrpc_core::Error

\* RemoveHead looking the id up without removing it
RemoveHeadKeep(S, id) == S

\* Subscribers::remove(&id) on the heads collection
RemoveHead(S, id) == S \ {id}
\* Subscribers::remove(&id) on the logs collection
RemoveLog(m, id) == [i \in DOMAIN m \ {id} |-> m[i]]

\* UnsubscribeResult reporting success whatever was removed
UnsubscribeResultAlwaysTrue(res, res2) == Ok(TRUE)

\* UnsubscribeResult failing when nothing was removed
UnsubscribeResultErrIfMissing(res, res2) ==
    IF res \/ res2 THEN Ok(TRUE) ELSE Err("NotFound")

\* UnsubscribeResult requiring a removal from both collections
UnsubscribeResultBoth(res, res2) == Ok(res /\ res2)

\* `Ok(res || res2)`
UnsubscribeResult(res, res2) == Ok(res \/ res2)

\* UnsubscribeHeads taking the tasks spawned for the id off the remote
UnsubscribeHeadsCancelling(id) ==
    /\ us.pc = "idle"
    /\ CanWriteHeads
    /\ heads' = RemoveHead(heads, id)
    /\ us' = [pc |-> "logs", id |-> id, res |-> id \in heads]
    /\ nhSpawned' = SelectSeq(nhSpawned,
                              LAMBDA t : ~(t.sub = id /\ t.st = "spawned"))
    /\ UNCHANGED <<logs, nextId, subRes, unsubRet, unsubTrue, nh,
                   nl, nlQuery, nlSpawned, sinks,
                   warned, q>>

\* `let res = self.heads_subscribers.write().remove(&id).is_some();`
UnsubscribeHeads(id) ==
    /\ us.pc = "idle"
    /\ CanWriteHeads
    /\ heads' = RemoveHead(heads, id)
    /\ us' = [pc |-> "logs", id |-> id, res |-> id \in heads]
    /\ UNCHANGED <<logs, nextId, subRes, unsubRet, unsubTrue, nh, nhSpawned,
                   nl, nlQuery, nlSpawned, sinks,
                   warned, q>>

\* `let res2 = self.logs_subscribers.write().remove(&id).is_some();`
\* followed by the return
UnsubscribeLogs ==
    /\ us.pc = "logs"
    /\ CanWriteLogs
    /\ LET res2 == us.id \in DOMAIN logs
           ret == UnsubscribeResult(us.res, res2)
       IN /\ logs' = RemoveLog(logs, us.id)
          /\ unsubRet' = [called |-> TRUE, id |-> us.id, res |-> us.res,
                          ret |-> ret]
          /\ unsubTrue' = IF ret.t = "Ok" /\ ret.v
                          THEN unsubTrue \cup {us.id} ELSE unsubTrue
    /\ us' = [pc |-> "idle", id |-> 0, res |-> FALSE]
    /\ UNCHANGED <<heads, nextId, subRes, nh, nhSpawned, nl, nlQuery,
                   nlSpawned, sinks,
                   warned, q>>

\* ------------------------------------------------------------------------
\* notify_heads
\* ------------------------------------------------------------------------
\* `self.heads_subscribers.read()`: the guard lives for the whole for loop
NotifyHeadsBegin(k) ==
    /\ nh.pc = "idle"
    /\ nh' = [pc |-> "run", si |-> 1, hi |-> 1, k |-> k, after |-> unsubTrue]
    /\ nhSpawned' = <<>>
    /\ UNCHANGED <<heads, logs, nextId, subRes, us, unsubRet, unsubTrue,
                   nl, nlQuery, nlSpawned, sinks,
                   warned, q>>

\* byte lengths of H256 and H64
H256Bytes == 32
H64Bytes == 8
\* H256::default(), H64::default(): every byte is zero
DefaultHash(size) == [i \in 1..size |-> 0]

HexDigits == <<"0", "1", "2", "3", "4", "5", "6", "7",
               "8", "9", "a", "b", "c", "d", "e", "f">>
\* `{:02x}` of one byte
ByteHex(b) == <<HexDigits[(b \div 16) + 1], HexDigits[(b % 16) + 1]>>

\* `{:?}` of a fixed hash: the two hex digits of every byte, in order
RECURSIVE DebugFormat(_)
DebugFormat(h) ==
    IF h = <<>> THEN <<>> ELSE ByteHex(Head(h)) \o DebugFormat(Tail(h))

\* `{}` of a fixed hash: the first two and the last two bytes around an
\* ellipsis
DisplayFormat(h) ==
    ByteHex(h[1]) \o ByteHex(h[2]) \o <<"...">>
        \o ByteHex(h[Len(h) - 1]) \o ByteHex(h[Len(h)])

\* ExtraInfo formatting the hashes with `{}`
ExtraInfoDisplay ==
    [mixHash |-> <<"0x">> \o DisplayFormat(DefaultHash(H256Bytes)),
     nonce |-> <<"0x">> \o DisplayFormat(DefaultHash(H64Bytes))]

\* extra_info of the RichHeader: format!("0x{:?}", ..) of the defaults
ExtraInfo ==
    [mixHash |-> <<"0x">> \o DebugFormat(DefaultHash(H256Bytes)),
     nonce |-> <<"0x">> \o DebugFormat(DefaultHash(H64Bytes))]

\* the subscriber the values() iterator stands on
HeadsCursor(S, si) == SortedIds(S)[si]

\* one `Self::notify(&self.remote, subscriber, Header(..))`: remote.spawn
NotifyHeadsSpawn ==
    /\ nh.pc = "run"
    /\ nh.k > 0
    /\ nh.si <= Cardinality(heads)
    /\ nhSpawned' = Append(nhSpawned,
                           [sub |-> HeadsCursor(heads, nh.si), header |-> nh.hi,
                            extra_info |-> ExtraInfo,
                            st |-> "spawned", at |-> 0])
    /\ nh' = IF nh.hi < nh.k
             THEN [nh EXCEPT !.hi = nh.hi + 1]
             ELSE [nh EXCEPT !.si = nh.si + 1, !.hi = 1]
    /\ UNCHANGED <<heads, logs, nextId, subRes, us, unsubRet, unsubTrue,
                   nl, nlQuery, nlSpawned, sinks,
                   warned, q>>

\* NotifyHeadsEnd waiting for the spawned deliveries before it returns
NotifyHeadsEndJoined ==
    /\ nh.pc = "run"
    /\ nh.k = 0 \/ nh.si > Cardinality(heads)
    /\ \A i \in 1..Len(nhSpawned) : nhSpawned[i].st # "spawned"
    /\ nh' = [nh EXCEPT !.pc = "idle"]
    /\ UNCHANGED <<heads, logs, nextId, subRes, us, unsubRet, unsubTrue,
                   nhSpawned, nl, nlQuery, nlSpawned, sinks,
                   warned, q>>

\* the loop is over: the read guard is dropped and notify_heads returns
NotifyHeadsEnd ==
    /\ nh.pc = "run"
    /\ nh.k = 0 \/ nh.si > Cardinality(heads)
    /\ nh' = [nh EXCEPT !.pc = "idle"]
    /\ UNCHANGED <<heads, logs, nextId, subRes, us, unsubRet, unsubTrue,
                   nhSpawned, nl, nlQuery, nlSpawned, sinks,
                   warned, q>>

\* ------------------------------------------------------------------------
\* notify_logs
\* ------------------------------------------------------------------------
\* Client::max_block_number: the id with the larger block number
MaxBlockNumber(a, b) ==
    IF a.t = "Latest" \/ b.t = "Latest" THEN Latest
    ELSE IF a.n > b.n THEN a ELSE b

\* Client::min_block_number: the id with the smaller block number
MinBlockNumber(a, b) ==
    IF a.t = "Latest" THEN b
    ELSE IF b.t = "Latest" THEN a
    ELSE IF a.n < b.n THEN a ELSE b

\* Client::logs(filter): the chain holds one log per block; the query
\* returns the logs of blocks from_block..to_block in block order
RECURSIVE Range(_, _)
Range(a, b) == IF a > b THEN <<>> ELSE <<a>> \o Range(a + 1, b)

ClientLogs(filter) ==
    LET lo == filter.from_block.n
        hi == IF filter.to_block.t = "Latest" THEN MaxBlock
              ELSE filter.to_block.n
    IN IF filter.from_block.t = "Latest" THEN <<>> ELSE Range(lo, hi)

\* ClampFilter without the "limit query to range" step
ClampFilterNoLimit(filter, from_block, to_block) ==
    [from_block |-> IF filter.from_block = Latest THEN from_block
                    ELSE filter.from_block,
     to_block |-> IF filter.to_block = Latest THEN to_block
                  ELSE filter.to_block]

\* ClampFilter replacing both bounds by the notified range
ClampFilterAlways(filter, from_block, to_block) ==
    [from_block |-> from_block, to_block |-> to_block]

\* the filter notify_logs builds from a stored filter and the notified range
ClampFilter(filter, from_block, to_block) ==
    LET f1 == IF filter.from_block = Latest THEN from_block
              ELSE filter.from_block
        t1 == IF filter.to_block = Latest THEN to_block
              ELSE filter.to_block
    IN [from_block |-> MaxBlockNumber(f1, from_block),
        to_block |-> MinBlockNumber(t1, to_block)]

\* `self.logs_subscribers.read()`: the guard lives for the whole for loop
NotifyLogsBegin(from_block, to_block) ==
    /\ nl.pc = "idle"
    /\ nl' = [pc |-> "run", si |-> 1, from_block |-> from_block,
              to_block |-> to_block]
    /\ nlSpawned' = <<>>
    /\ UNCHANGED <<heads, logs, nextId, subRes, us, unsubRet, unsubTrue,
                   nh, nhSpawned, nlQuery, sinks,
                   warned, q>>

LogsCursor(m, si) == SortedIds(DOMAIN m)[si]

RECURSIVE LogTasks(_, _)
LogTasks(sub, ls) ==
    IF ls = <<>> THEN <<>>
    ELSE <<[sub |-> sub, log |-> Head(ls), st |-> "spawned", at |-> 0]>>
         \o LogTasks(sub, Tail(ls))

\* NotifyLogsStep rewriting the stored filter instead of a clone of it
NotifyLogsStepInPlace ==
    /\ nl.pc = "run"
    /\ nl.si <= Cardinality(DOMAIN logs)
    /\ LET sub == LogsCursor(logs, nl.si)
           filter == ClampFilter(logs[sub], nl.from_block, nl.to_block)
       IN /\ nlQuery' = [valid |-> TRUE, sub |-> sub, stored |-> logs[sub],
                         from_block |-> nl.from_block,
                         to_block |-> nl.to_block, filter |-> filter]
          /\ nlSpawned' = nlSpawned \o LogTasks(sub, ClientLogs(filter))
          /\ logs' = [logs EXCEPT ![sub] = filter]
    /\ nl' = [nl EXCEPT !.si = nl.si + 1]
    /\ UNCHANGED <<heads, nextId, subRes, us, unsubRet, unsubTrue,
                   nh, nhSpawned, sinks,
                   warned, q>>

\* one iteration of the loop over the logs subscribers
NotifyLogsStep ==
    /\ nl.pc = "run"
    /\ nl.si <= Cardinality(DOMAIN logs)
    /\ LET sub == LogsCursor(logs, nl.si)
           filter == ClampFilter(logs[sub], nl.from_block, nl.to_block)
       IN /\ nlQuery' = [valid |-> TRUE, sub |-> sub, stored |-> logs[sub],
                         from_block |-> nl.from_block,
                         to_block |-> nl.to_block, filter |-> filter]
          /\ nlSpawned' = nlSpawned \o LogTasks(sub, ClientLogs(filter))
    /\ nl' = [nl EXCEPT !.si = nl.si + 1]
    /\ UNCHANGED <<heads, logs, nextId, subRes, us, unsubRet, unsubTrue,
                   nh, nhSpawned, sinks,
                   warned, q>>

NotifyLogsEnd ==
    /\ nl.pc = "run"
    /\ nl.si > Cardinality(DOMAIN logs)
    /\ nl' = [nl EXCEPT !.pc = "idle"]
    /\ UNCHANGED <<heads, logs, nextId, subRes, us, unsubRet, unsubTrue,
                   nh, nhSpawned, nlQuery, nlSpawned, sinks,
                   warned, q>>

\* ------------------------------------------------------------------------
\* Delivery tasks on the remote
\* ------------------------------------------------------------------------
\* Remote::spawn: the tasks the remote may run next; spawned futures are
\* independent of each other, any that has not run yet may run
Runnable(tasks) == {i \in 1..Len(tasks) : tasks[i].st = "spawned"}

\* OnSendError taking the subscriber out of the collection
OnSendErrorDrop(S, sub) == S \ {sub}

\* `.map_err(|e| warn!(..))`: the ids a collection keeps after a failed send
OnSendError(S, sub) == S

\* pubsub::Result::Header(..) and pubsub::Result::Log(..)
HeaderEvent(h) == [kind |-> "Header", n |-> h]
LogEvent(l) == [kind |-> "Log", n |-> l]

\* a spawned `subscriber.notify(Ok(Header(..)))` future runs; `ok` is
\* whether the sink's transport took the message
RunHeadTask(i, ok) ==
    /\ i \in Runnable(nhSpawned)
    /\ LET t == nhSpawned[i] IN
       /\ sinks' = IF ok
                   THEN [sinks EXCEPT ![t.sub] = Append(@, HeaderEvent(t.header))]
                   ELSE sinks
       /\ nhSpawned' = [nhSpawned EXCEPT
                          ![i].st = IF ok THEN "sent" ELSE "failed",
                          ![i].at = IF ok THEN Len(sinks[t.sub]) + 1 ELSE 0]
       /\ warned' = IF ok THEN warned ELSE warned \cup {t.sub}
       /\ heads' = IF ok THEN heads ELSE OnSendError(heads, t.sub)
    /\ UNCHANGED <<logs, nextId, subRes, us, unsubRet, unsubTrue, nh, nl,
                   nlQuery, nlSpawned, q>>

\* a spawned `subscriber.notify(Ok(Log(..)))` future runs
RunLogTask(i, ok) ==
    /\ i \in Runnable(nlSpawned)
    /\ LET t == nlSpawned[i] IN
       /\ sinks' = IF ok
                   THEN [sinks EXCEPT ![t.sub] = Append(@, LogEvent(t.log))]
                   ELSE sinks
       /\ nlSpawned' = [nlSpawned EXCEPT
                          ![i].st = IF ok THEN "sent" ELSE "failed",
                          ![i].at = IF ok THEN Len(sinks[t.sub]) + 1 ELSE 0]
       /\ warned' = IF ok THEN warned ELSE warned \cup {t.sub}
       /\ logs' = IF ok THEN logs
                  ELSE [j \in OnSendError(DOMAIN logs, t.sub) |-> logs[j]]
    /\ UNCHANGED <<heads, nextId, subRes, us, unsubRet, unsubTrue, nh,
                   nhSpawned, nl, nlQuery, q>>

\* ------------------------------------------------------------------------
\* The registry and its notification handler
\* ------------------------------------------------------------------------
QIdle == [pc |-> "idle", op |-> "", num |-> [bn |-> "Latest", n |-> 0],
          env |-> [status |-> "InChain", val |-> [some |-> FALSE, v |-> 0],
                   code |-> [some |-> FALSE, has |-> FALSE, v |-> 0],
                   sign |-> TRUE, state |-> TRUE, header |-> "Ok",
                   exec |-> "Ok", out |-> 0],
          res |-> [t |-> "Ok", e |-> "", v |-> 0], reqs |-> <<>>]

Init ==
    /\ heads = {}
    /\ logs = <<>>
    /\ nextId = 1
    /\ subRes = [kind |-> "NewHeads", params |-> "Absent", out |-> "none",
                 id |-> 0]
    /\ us = [pc |-> "idle", id |-> 0, res |-> FALSE]
    /\ unsubRet = [called |-> FALSE, id |-> 0, res |-> FALSE,
                   ret |-> Ok(FALSE)]
    /\ unsubTrue = {}
    /\ nh = [pc |-> "idle", si |-> 1, hi |-> 1, k |-> 0, after |-> {}]
    /\ nhSpawned = <<>>
    /\ nl = [pc |-> "idle", si |-> 1, from_block |-> Number(0),
             to_block |-> Number(0)]
    /\ nlQuery = [valid |-> FALSE, sub |-> 0, stored |-> NoFilter,
                  from_block |-> Number(0), to_block |-> Number(0),
                  filter |-> NoFilter]
    /\ nlSpawned = <<>>
    /\ sinks = [i \in 1..MaxSubs |-> <<>>]
    /\ warned = {}
    /\ q = QIdle

\* the parameters a subscribe call may carry when the filter's content
\* does not matter
ParamsAnyFilter == {Absent, ParamsNone, ParamsLogs(NoFilter)}

Next ==
    \/ \E kind \in Kinds, params \in ParamsAnyFilter : Subscribe(kind, params)
    \/ \E id \in KnownIds(nextId) : UnsubscribeHeads(id)
    \/ UnsubscribeLogs
    \/ \E k \in 0..MaxHeaders : NotifyHeadsBegin(k)
    \/ NotifyHeadsSpawn
    \/ NotifyHeadsEnd

Spec == Init /\ [][Next]_vars

\* the logs half of the registry, with every filter and notified range
LogsNext ==
    \/ \E f \in Filters : Subscribe("Logs", ParamsLogs(f))
    \/ \E p \in {Absent, ParamsNone} : Subscribe("Logs", p)
    \/ \E f \in BlockNums, t \in BlockNums :
          f <= t /\ NotifyLogsBegin(Number(f), Number(t))
    \/ NotifyLogsStep
    \/ NotifyLogsEnd

LogsSpec == Init /\ [][LogsNext]_vars

\* the registry, the dispatcher and the remote running the delivery tasks.
\* The record of spawned tasks is kept per invocation, so the chain starts
\* a notification once the tasks of the previous one have run, one
\* notification at a time.
Settled(tasks) == Runnable(tasks) = {}
SinkRoom == \A s \in 1..MaxSubs : Len(sinks[s]) < MaxSink

DeliveryNext ==
    \/ Subscribe("NewHeads", Absent)
    \/ Subscribe("NewPendingTransactions", Absent)
    \/ Subscribe("Logs", ParamsLogs(NoFilter))
    \/ \E k \in 0..MaxHeaders :
          /\ Settled(nhSpawned) /\ Settled(nlSpawned) /\ nl.pc = "idle"
          /\ SinkRoom /\ NotifyHeadsBegin(k)
    \/ NotifyHeadsSpawn
    \/ NotifyHeadsEnd
    \/ /\ Settled(nhSpawned) /\ Settled(nlSpawned) /\ nh.pc = "idle"
       /\ SinkRoom /\ NotifyLogsBegin(Number(0), Number(1))
    \/ NotifyLogsStep
    \/ NotifyLogsEnd
    \/ \E i \in 1..Len(nhSpawned), ok \in BOOLEAN : RunHeadTask(i, ok)
    \/ \E i \in 1..Len(nlSpawned), ok \in BOOLEAN : RunLogTask(i, ok)

DeliverySpec == Init /\ [][DeliveryNext]_vars

\* the head subscribers, their unsubscribe calls and the remote running the
\* header deliveries
CancelNext ==
    \/ Subscribe("NewHeads", Absent)
    \/ \E id \in KnownIds(nextId) : UnsubscribeHeads(id)
    \/ UnsubscribeLogs
    \/ \E k \in 1..MaxHeaders :
          Settled(nhSpawned) /\ SinkRoom /\ NotifyHeadsBegin(k)
    \/ NotifyHeadsSpawn
    \/ NotifyHeadsEnd
    \/ \E i \in 1..Len(nhSpawned), ok \in BOOLEAN : RunHeadTask(i, ok)

CancelSpec == Init /\ [][CancelNext]_vars

\* The registry under contention. A subscribe call is first made, then it
\* runs when its write lock is granted.
SubscribeCall(kind, params) ==
    /\ subRes.out # "called"
    /\ nextId <= MaxSubs
    /\ subRes' = [kind |-> kind, params |-> params.t, out |-> "called",
                  id |-> 0]
    /\ UNCHANGED <<heads, logs, nextId, us, unsubRet, unsubTrue, nh,
                   nhSpawned, nl, nlQuery, nlSpawned, sinks,
                   warned, q>>

SubscribeRun ==
    /\ subRes.out = "called"
    /\ Subscribe(subRes.kind,
                 IF subRes.params = "Logs" THEN ParamsLogs(NoFilter)
                 ELSE Absent)

LiveNext ==
    \/ SubscribeCall("NewHeads", Absent)
    \/ SubscribeCall("Logs", ParamsLogs(NoFilter))
    \/ SubscribeRun
    \/ \E id \in KnownIds(nextId) \ {0} : UnsubscribeHeads(id)
    \/ UnsubscribeLogs
    \/ NotifyHeadsBegin(1)
    \/ NotifyHeadsSpawn
    \/ NotifyHeadsEnd
    \/ NotifyLogsBegin(Number(0), Number(0))
    \/ NotifyLogsStep
    \/ NotifyLogsEnd

\* a thread inside notify_heads or notify_logs keeps running (weak
\* fairness); parking_lot's RwLock is task-fair, a waiting writer is
\* granted the lock once the readers ahead of it are gone (strong fairness
\* of the two steps that wait for a write lock)
LiveFairness ==
    /\ WF_vars(NotifyHeadsSpawn) /\ WF_vars(NotifyHeadsEnd)
    /\ WF_vars(NotifyLogsStep) /\ WF_vars(NotifyLogsEnd)
    /\ SF_vars(SubscribeRun)
    /\ SF_vars(UnsubscribeLogs)

LiveSpec == Init /\ [][LiveNext]_vars /\ LiveFairness

\* ------------------------------------------------------------------------
\* Eth queries: block numbers, the client's answers, results
\* ------------------------------------------------------------------------
\* parity_rpc::v1::types::BlockNumber
Num(n) == [bn |-> "Num", n |-> n]
BnLatest == [bn |-> "Latest", n |-> 0]
BnEarliest == [bn |-> "Earliest", n |-> 0]
Pending == [bn |-> "Pending", n |-> 0]
BlockNumbers == {Num(n) : n \in BlockNums} \cup {BnLatest, BnEarliest, Pending}

\* ethcore::block_status::BlockStatus
BlockStatuses == {"InChain", "Queued", "Unknown", "Bad"}

\* Option<value> answered by the client's state reads
None == [some |-> FALSE, v |-> 0]
Some(v) == [some |-> TRUE, v |-> v]
Vals == {1, 2}
OptVals == {None} \cup {Some(v) : v \in Vals}
\* Option<Option<Bytes>> answered by Client::code
NoCodeState == [some |-> FALSE, has |-> FALSE, v |-> 0]
SomeNoCode == [some |-> TRUE, has |-> FALSE, v |-> 0]
SomeCode(v) == [some |-> TRUE, has |-> TRUE, v |-> v]
OptCodes == {NoCodeState, SomeNoCode} \cup {SomeCode(v) : v \in Vals}
\* Bytes::default()
EmptyBytes == 0

\* what the client answers to the requests of one call, at the block asked
DefaultEnv == [status |-> "InChain", val |-> None, code |-> NoCodeState,
               sign |-> TRUE,
               state |-> TRUE, header |-> "Ok", exec |-> "Ok", out |-> 0]
ReadEnvs == {[DefaultEnv EXCEPT !.status = st, !.val = v] :
                st \in BlockStatuses, v \in OptVals}
CodeEnvs == {[DefaultEnv EXCEPT !.status = st, !.code = v] :
                st \in BlockStatuses, v \in OptCodes}
ExecEnvs == {[DefaultEnv EXCEPT !.status = st, !.sign = sg, !.state = sa,
                                !.header = h, !.exec = x, !.out = o] :
                st \in BlockStatuses, sg \in BOOLEAN, sa \in BOOLEAN,
                h \in {"None", "Bad", "Ok"},
                x \in {"Err", "Exception", "Ok"}, o \in Vals}

\* Client::estimate_gas answers a gas amount or a CallError
EstimateEnvs == {env \in ExecEnvs : env.exec # "Exception"}

\* Client::send_raw_transaction answers a transaction hash or an error
SendEnvs == {[DefaultEnv EXCEPT !.exec = x, !.out = o] :
                x \in {"Err", "Ok"}, o \in Vals}
\* Index values of transaction_by_block_number_and_index
Indexes == {0, 1}

\* jsonrpc_core::Result
RpcOk(v) == [t |-> "Ok", e |-> "", v |-> v]
RpcErr(e) == [t |-> "Err", e |-> e, v |-> 0]
Req(m, id) == [m |-> m, id |-> id]
Out(res, reqs) == [res |-> res, reqs |-> reqs]

\* get_state resolving Pending to the earliest block
get_statePendingEarliest(number) ==
    IF number.bn = "Num" THEN Number(number.n)
    ELSE IF number.bn = "Earliest" THEN Earliest
    ELSE IF number.bn = "Latest" THEN Latest
    ELSE Earliest

\* EthClient::get_state
get_state(number) ==
    IF number.bn = "Num" THEN Number(number.n)
    ELSE IF number.bn = "Earliest" THEN Earliest
    ELSE IF number.bn = "Latest" THEN Latest
    ELSE Latest

\* parity_rpc::v1::types::block_number_to_id (never reached with Pending)
block_number_to_id(number) ==
    IF number.bn = "Num" THEN Number(number.n)
    ELSE IF number.bn = "Earliest" THEN Earliest
    ELSE Latest

\* check_known accepting a block that is queued for import
check_knownQueued(env, number) ==
    IF number.bn = "Pending" THEN Out(RpcOk(0), <<>>)
    ELSE LET id == IF number.bn = "Num" THEN Number(number.n)
                   ELSE IF number.bn = "Latest" THEN Latest
                   ELSE Earliest
         IN Out(IF env.status \in {"InChain", "Queued"} THEN RpcOk(0)
                ELSE RpcErr("UnknownBlock"),
                <<Req("block_status", id)>>)

\* check_known
check_known(env, number) ==
    IF number.bn = "Pending" THEN Out(RpcOk(0), <<>>)
    ELSE LET id == IF number.bn = "Num" THEN Number(number.n)
                   ELSE IF number.bn = "Latest" THEN Latest
                   ELSE Earliest
         IN Out(IF env.status = "InChain" THEN RpcOk(0)
                ELSE RpcErr("UnknownBlock"),
                <<Req("block_status", id)>>)

\* balance reading the state without consulting check_known
balanceUnguarded(env, num) ==
    Out(IF env.val.some THEN RpcOk(env.val.v) ELSE RpcErr("StatePruned"),
        <<Req("balance", get_state(num))>>)

\* EthClient::balance
balance(env, num) ==
    LET ck == check_known(env, num) IN
    IF ck.res.t = "Err" THEN ck
    ELSE Out(IF env.val.some THEN RpcOk(env.val.v)
             ELSE RpcErr("StatePruned"),
             ck.reqs \o <<Req("balance", get_state(num))>>)

\* EthClient::storage_at
storage_at(env, num) ==
    LET ck == check_known(env, num) IN
    IF ck.res.t = "Err" THEN ck
    ELSE Out(IF env.val.some THEN RpcOk(env.val.v)
             ELSE RpcErr("StatePruned"),
             ck.reqs \o <<Req("storage_at", get_state(num))>>)

\* EthClient::code_at
code_at(env, num) ==
    LET ck == check_known(env, num) IN
    IF ck.res.t = "Err" THEN ck
    ELSE Out(IF env.code.some
             THEN RpcOk(IF env.code.has THEN env.code.v ELSE EmptyBytes)
             ELSE RpcErr("StatePruned"),
             ck.reqs \o <<Req("code", get_state(num))>>)

\* transaction_count answering StatePruned for a missing latest nonce
transaction_countPruned(env, num) ==
    IF num.bn = "Pending"
    THEN Out(IF env.val.some THEN RpcOk(env.val.v) ELSE RpcErr("StatePruned"),
             <<Req("nonce", Latest)>>)
    ELSE LET ck == check_known(env, num) IN
         IF ck.res.t = "Err" THEN ck
         ELSE Out(IF env.val.some THEN RpcOk(env.val.v)
                  ELSE RpcErr("StatePruned"),
                  ck.reqs \o <<Req("nonce", block_number_to_id(num))>>)

\* EthClient::transaction_count
transaction_count(env, num) ==
    IF num.bn = "Pending"
    THEN Out(IF env.val.some THEN RpcOk(env.val.v) ELSE RpcErr("Database"),
             <<Req("nonce", Latest)>>)
    ELSE LET ck == check_known(env, num) IN
         IF ck.res.t = "Err" THEN ck
         ELSE Out(IF env.val.some THEN RpcOk(env.val.v)
                  ELSE RpcErr("StatePruned"),
                  ck.reqs \o <<Req("nonce", block_number_to_id(num))>>)

\* the block id `call` and `estimate_gas` resolve their block number to
CallBlockId(num) ==
    IF num.bn = "Num" THEN Number(num.n)
    ELSE IF num.bn = "Earliest" THEN Earliest
    ELSE IF num.bn = "Latest" THEN Latest
    ELSE Latest

\* state and header acquisition of `call` and `estimate_gas`
StateAndHeader(env, id) ==
    IF ~env.state
    THEN Out(RpcErr("StatePruned"), <<Req("state_at", id)>>)
    ELSE IF env.header = "None"
    THEN Out(RpcErr("StatePruned"),
             <<Req("state_at", id), Req("block_header", id)>>)
    ELSE IF env.header = "Bad"
    THEN Out(RpcErr("Decode"),
             <<Req("state_at", id), Req("block_header", id)>>)
    ELSE Out(RpcOk(0), <<Req("state_at", id), Req("block_header", id)>>)

\* EthClient::call
call(env, num) ==
    IF ~env.sign THEN Out(RpcErr("SignCall"), <<>>)
    ELSE LET sh == StateAndHeader(env, CallBlockId(num)) IN
         IF sh.res.t = "Err" THEN sh
         ELSE Out(IF env.exec = "Err" THEN RpcErr("Call")
                  ELSE IF env.exec = "Exception" THEN RpcErr("VM")
                  ELSE RpcOk(env.out),
                  sh.reqs \o <<Req("call", CallBlockId(num))>>)

\* estimate_gas consulting check_known before it acquires the state
estimate_gasGuarded(env, num) ==
    IF ~env.sign THEN Out(RpcErr("SignCall"), <<>>)
    ELSE LET ck == check_known(env, num) IN
         IF ck.res.t = "Err" THEN ck
         ELSE LET sh == StateAndHeader(env, CallBlockId(num)) IN
              IF sh.res.t = "Err" THEN Out(sh.res, ck.reqs \o sh.reqs)
              ELSE Out(IF env.exec = "Err" THEN RpcErr("Call")
                       ELSE RpcOk(env.out),
                       ck.reqs \o sh.reqs
                         \o <<Req("estimate_gas", CallBlockId(num))>>)

\* EthClient::estimate_gas
estimate_gas(env, num) ==
    IF ~env.sign THEN Out(RpcErr("SignCall"), <<>>)
    ELSE LET sh == StateAndHeader(env, CallBlockId(num)) IN
         IF sh.res.t = "Err" THEN sh
         ELSE Out(IF env.exec = "Err" THEN RpcErr("Call")
                  ELSE RpcOk(env.out),
                  sh.reqs \o <<Req("estimate_gas", CallBlockId(num))>>)

\* rich_block resolving Pending to the earliest block
RichBlockIdPendingEarliest(num) ==
    IF num.bn = "Latest" THEN Latest
    ELSE IF num.bn = "Earliest" THEN Earliest
    ELSE IF num.bn = "Num" THEN Number(num.n)
    ELSE Earliest

\* the block id rich_block resolves a BlockNumberOrId::Number to
RichBlockId(num) ==
    IF num.bn = "Latest" THEN Latest
    ELSE IF num.bn = "Earliest" THEN Earliest
    ELSE IF num.bn = "Num" THEN Number(num.n)
    ELSE Latest

\* EthClient::rich_block: the client's block, or None
rich_block(env, num) ==
    Out(RpcOk(env.val), <<Req("block", RichBlockId(num))>>)

\* EthClient::block_by_number
block_by_number(env, num) == rich_block(env, num)

\* the raw bytes handed to the client; no block is named
RawBytes == [t |-> "Raw", n |-> 0]

\* send_raw_transaction decoding the bytes itself and answering an Rlp error
send_raw_transactionRlp(env) ==
    Out(IF env.exec = "Err" THEN RpcErr("Rlp") ELSE RpcOk(env.out),
        <<Req("send_raw_transaction", RawBytes)>>)

\* EthClient::send_raw_transaction
send_raw_transaction(env) ==
    Out(IF env.exec = "Err" THEN RpcErr("Call") ELSE RpcOk(env.out),
        <<Req("send_raw_transaction", RawBytes)>>)

\* EthClient::submit_transaction
submit_transaction(env) == send_raw_transaction(env)

\* TransactionId::Location(block, index)
Location(block, index) == [t |-> "Location", block |-> block, n |-> index]

\* PendingOrBlock chosen by transaction_by_block_number_and_index
PendingOrBlock(num) ==
    IF num.bn = "Latest" THEN [pending |-> FALSE, block |-> Latest]
    ELSE IF num.bn = "Earliest" THEN [pending |-> FALSE, block |-> Earliest]
    ELSE IF num.bn = "Num" THEN [pending |-> FALSE, block |-> Number(num.n)]
    ELSE [pending |-> TRUE, block |-> Latest]

\* EthClient::transaction looking a pending location up at the latest block
transactionPendingAtLatest(env, block_id, index) ==
    Out(RpcOk(env.val), <<Req("transaction", Location(block_id.block, index))>>)

\* EthClient::transaction for PendingTransactionId::Location
transaction(env, block_id, index) ==
    IF block_id.pending THEN Out(RpcOk(None), <<>>)
    ELSE Out(RpcOk(env.val),
             <<Req("transaction", Location(block_id.block, index))>>)

\* EthClient::transaction_by_block_number_and_index
transaction_by_block_number_and_index(env, num, index) ==
    transaction(env, PendingOrBlock(num), index)

\* ------------------------------------------------------------------------
\* Eth queries as steps: one call is made, then it returns
\* ------------------------------------------------------------------------
Done(op, num, env, out) ==
    [pc |-> "done", op |-> op, num |-> num, env |-> env,
     res |-> out.res, reqs |-> out.reqs]

Query(op, num, env, out) ==
    /\ q.pc = "idle"
    /\ q' = Done(op, num, env, out)
    /\ UNCHANGED regVars

EthBalance ==
    \E num \in BlockNumbers, env \in ReadEnvs :
        Query("balance", num, env, balance(env, num))

EthStorageAt ==
    \E num \in BlockNumbers, env \in ReadEnvs :
        Query("storage_at", num, env, storage_at(env, num))

EthCodeAt ==
    \E num \in BlockNumbers, env \in CodeEnvs :
        Query("code_at", num, env, code_at(env, num))

EthTransactionCount ==
    \E num \in BlockNumbers, env \in ReadEnvs :
        Query("transaction_count", num, env, transaction_count(env, num))

EthCall ==
    \E num \in BlockNumbers, env \in ExecEnvs :
        Query("call", num, env, call(env, num))

EthEstimateGas ==
    \E num \in BlockNumbers, env \in EstimateEnvs :
        Query("estimate_gas", num, env, estimate_gas(env, num))

EthSendRawTransaction ==
    \E env \in SendEnvs :
        Query("send_raw_transaction", BnLatest, env, send_raw_transaction(env))

EthSubmitTransaction ==
    \E env \in SendEnvs :
        Query("submit_transaction", BnLatest, env, submit_transaction(env))

EthTransactionByBlockNumberAndIndex ==
    \E num \in BlockNumbers, index \in Indexes, env \in ReadEnvs :
        Query("transaction_by_block_number_and_index", num, env,
              transaction_by_block_number_and_index(env, num, index))

EthBlockByNumber ==
    \E num \in BlockNumbers, env \in ReadEnvs :
        Query("block_by_number", num, env, block_by_number(env, num))

\* the boxed future is handed back to the transport
QueryReturn ==
    /\ q.pc = "done"
    /\ q' = QIdle
    /\ UNCHANGED regVars

QueryNext ==
    \/ EthBalance
    \/ EthStorageAt
    \/ EthCodeAt
    \/ EthTransactionCount
    \/ EthCall
    \/ EthEstimateGas
    \/ EthBlockByNumber
    \/ EthTransactionByBlockNumberAndIndex
    \/ EthSendRawTransaction
    \/ EthSubmitTransaction
    \/ Subscribe("NewHeads", Absent)
    \/ Subscribe("Logs", ParamsLogs(NoFilter))
    \/ QueryReturn

QuerySpec == Init /\ [][QueryNext]_vars

\* ------------------------------------------------------------------------
\* Properties of the registry and the notification handler
\* ------------------------------------------------------------------------
\* number of tasks of the notify_heads invocation spawned for subscriber s
HeadTasks(s) == Cardinality({i \in 1..Len(nhSpawned) : nhSpawned[i].sub = s})

\* C1: a notify_heads invocation that begins after unsubscribe(S1) has
\* returned true spawns no header event for S1
C1_NoHeaderAfterUnsubscribe ==
    \A i \in 1..Len(nhSpawned) : nhSpawned[i].sub \notin nh.after

\* a head subscriber was unsubscribed with result true, and a notify_heads
\* invocation that began afterwards has spawned header events
C1_Witness ==
    /\ unsubRet.called /\ unsubRet.res /\ unsubRet.ret = Ok(TRUE)
    /\ unsubRet.id \in nh.after
    /\ Len(nhSpawned) > 0

\* C5: when a notify_heads invocation carrying k headers has returned, every
\* subscriber was scheduled all k header events of it or none
C5_AllOrNone ==
    nh.pc = "idle" => \A s \in 1..MaxSubs : HeadTasks(s) \in {0, nh.k}

\* an invocation with several headers returned while an unsubscribe call was
\* in flight; one subscriber got all its events and a registered one got none
C5_Witness ==
    /\ nh.pc = "idle" /\ nh.k >= 2
    /\ us.pc = "logs"
    /\ \E s \in 1..MaxSubs : HeadTasks(s) = nh.k
    /\ \E s \in heads : HeadTasks(s) = 0

\* the combinations the subscribe contract lists by name
ListedCombination(kind, params) ==
    \/ kind = "NewHeads"
    \/ kind = "Logs"
    \/ kind = "NewPendingTransactions" /\ params.t = "Absent"

\* C8 as stated: every combination that is not listed, newPendingTransactions
\* with parameters included, is rejected with Unimplemented and registers
\* nothing
C8_Original ==
    [][\A kind \in Kinds, params \in ParamsAnyFilter :
         (Subscribe(kind, params) /\ ~ListedCombination(kind, params))
         => /\ subRes'.out = "Unimplemented"
            /\ heads' = heads /\ logs' = logs]_vars

\* C8 (amended): every subscribe call whose kind is none of NewHeads, Logs
\* and NewPendingTransactions is rejected with Unimplemented and registers
\* nothing; NewPendingTransactions with parameters is rejected with
\* InvalidParams and registers nothing
C8_UnimplementedOtherKinds ==
    [][\A kind \in Kinds, params \in ParamsAnyFilter :
         (Subscribe(kind, params) /\ ~ListedCombination(kind, params))
         => /\ subRes'.out = IF kind = "NewPendingTransactions"
                             THEN "InvalidParams" ELSE "Unimplemented"
            /\ heads' = heads /\ logs' = logs]_vars

\* a subscribe of another kind was rejected with Unimplemented while the
\* registry held subscribers
C8_Witness ==
    /\ subRes.kind = "Syncing" /\ subRes.out = "Unimplemented"
    /\ heads # {} /\ DOMAIN logs # {}

\* C9: subscribe(NewHeads, non-empty parameters) rejects the subscriber with
\* InvalidParams and leaves both collections unchanged
C9_NewHeadsWithParams ==
    [][\A params \in ParamsAnyFilter \ {Absent} :
         Subscribe("NewHeads", params)
         => /\ subRes'.out = "InvalidParams"
            /\ heads' = heads /\ logs' = logs]_vars

\* a NewHeads subscribe carrying parameters was rejected with InvalidParams
C9_Witness ==
    /\ subRes.kind = "NewHeads" /\ subRes.params = "Logs"
    /\ subRes.out = "InvalidParams"
    /\ heads # {}

\* the id has not been issued by the registry when `n` is the next id
NeverIssued(id, n) == id = 0 \/ id >= n

\* C10: unsubscribe of an id the registry never issued removes nothing from
\* either collection and returns Ok(false)
C10_UnsubscribeUnknownId ==
    [][/\ \A id \in Ids :
            (UnsubscribeHeads(id) /\ NeverIssued(id, nextId))
            => heads' = heads /\ logs' = logs
       /\ (UnsubscribeLogs /\ NeverIssued(us.id, nextId))
            => /\ heads' = heads /\ logs' = logs
               /\ unsubRet'.ret = Ok(FALSE)]_vars

\* unsubscribe of a never-issued id returned Ok(false) with both collections
\* populated
C10_Witness ==
    /\ unsubRet.called /\ NeverIssued(unsubRet.id, nextId)
    /\ unsubRet.ret = Ok(FALSE)
    /\ heads # {} /\ DOMAIN logs # {}

\* C11: unsubscribe returns true exactly when the id was in the heads or in
\* the logs collection when its removal was attempted; when it returns the
\* id is in neither collection and every other subscription is still there
C11_UnsubscribeRemoves ==
    [][/\ (us.pc = "idle" /\ us'.pc = "logs") =>
            /\ us'.res = (us'.id \in heads)
            /\ heads' = heads \ {us'.id}
            /\ logs' = logs
       /\ (us.pc = "logs" /\ us'.pc = "idle") =>
            /\ unsubRet'.ret = Ok(us.res \/ us.id \in DOMAIN logs)
            /\ us.id \notin heads' /\ us.id \notin DOMAIN logs'
            /\ heads' = heads
            /\ DOMAIN logs' = DOMAIN logs \ {us.id}
            /\ \A i \in DOMAIN logs' : logs'[i] = logs[i]]_vars

\* a logs subscription was removed with result true while a heads
\* subscription stayed registered
C11_Witness ==
    /\ unsubRet.called /\ ~unsubRet.res /\ unsubRet.ret = Ok(TRUE)
    /\ unsubRet.id \notin heads /\ unsubRet.id \notin DOMAIN logs
    /\ heads # {}

\* every id the registry has handed out: an id leaves the collections only
\* through unsubscribe
IssuedIds ==
    heads \cup DOMAIN logs \cup unsubTrue
          \cup (IF us.pc = "logs" /\ us.res THEN {us.id} ELSE {})

\* C12: the heads and the logs collection never share an id, and a
\* subscription is never given an id that was handed out before
C12_UniqueIds ==
    [][/\ heads' \cap DOMAIN logs' = {}
       /\ (heads' # heads \/ DOMAIN logs' # DOMAIN logs) =>
            \A i \in (heads' \ heads) \cup (DOMAIN logs' \ DOMAIN logs) :
                i \notin IssuedIds]_vars

\* after one subscription was removed, a later one was registered under a
\* different id
C12_Witness ==
    /\ unsubTrue # {}
    /\ subRes.out = "assigned" /\ subRes.id \notin unsubTrue
    /\ subRes.id \in heads \cup DOMAIN logs

\* ------------------------------------------------------------------------
\* Properties of notify_logs
\* ------------------------------------------------------------------------
\* C3: the filter notify_logs executes lies within the notified range, and
\* every log event it spawns is of a block within that range
C3_QueryWithinNotifiedRange ==
    /\ nlQuery.valid =>
         /\ nlQuery.filter.from_block.t = "Number"
         /\ nlQuery.filter.to_block.t = "Number"
         /\ nlQuery.filter.from_block.n >= nlQuery.from_block.n
         /\ nlQuery.filter.to_block.n <= nlQuery.to_block.n
    /\ \A i \in 1..Len(nlSpawned) :
         /\ nlSpawned[i].log >= nl.from_block.n
         /\ nlSpawned[i].log <= nl.to_block.n

\* a filter open below (from_block Latest) and wider above than the notified
\* range was executed and log events were spawned
C3_Witness ==
    /\ nlQuery.valid
    /\ nlQuery.stored.from_block = Latest
    /\ nlQuery.stored.to_block.t = "Number"
    /\ nlQuery.stored.to_block.n > nlQuery.to_block.n
    /\ nlQuery.from_block.n > 0
    /\ \E i \in 1..Len(nlSpawned) : nlSpawned[i].sub = nlQuery.sub

Max(a, b) == IF a > b THEN a ELSE b
Min(a, b) == IF a < b THEN a ELSE b

\* C4: a concrete stored bound is never widened: from Number(a) the
\* effective lower bound is max(a, F), from Number(b) the effective upper
\* bound is min(b, T)
C4_ClampNeverWidens ==
    nlQuery.valid =>
      /\ nlQuery.stored.from_block.t = "Number" =>
           /\ nlQuery.filter.from_block =
                Number(Max(nlQuery.stored.from_block.n, nlQuery.from_block.n))
           /\ nlQuery.filter.from_block.n >= nlQuery.stored.from_block.n
      /\ nlQuery.stored.to_block.t = "Number" =>
           /\ nlQuery.filter.to_block =
                Number(Min(nlQuery.stored.to_block.n, nlQuery.to_block.n))
           /\ nlQuery.filter.to_block.n <= nlQuery.stored.to_block.n

\* a stored lower bound below the notified range was raised to the range's
\* first block
C4_Witness ==
    /\ nlQuery.valid
    /\ nlQuery.stored.from_block.t = "Number"
    /\ nlQuery.stored.from_block.n < nlQuery.from_block.n
    /\ nlQuery.filter.from_block = nlQuery.from_block

\* ------------------------------------------------------------------------
\* Properties of the Eth queries
\* ------------------------------------------------------------------------
\* the guard fails for the call's block number
GuardFails == q.num.bn # "Pending" /\ q.env.status # "InChain"
\* the requests of the call that acquire or read state
StateRequests ==
    {i \in 1..Len(q.reqs) : q.reqs[i].m # "block_status"}

\* C2 as stated: call on a block number other than Pending whose status is
\* not InChain returns UnknownBlock and makes no state_at or block_header
\* request
C2_CallUnknownBlock ==
    (q.pc = "done" /\ q.op = "call" /\ q.env.sign /\ GuardFails)
    => /\ q.res = RpcErr("UnknownBlock")
       /\ StateRequests = {}

\* C6: balance, storage_at and code_at consult the guard first; a failed
\* guard gives UnknownBlock and no state read, a passed guard with no state
\* gives StatePruned, otherwise the client's value is returned
C6_GuardedStateReads ==
    (q.pc = "done" /\ q.op \in {"balance", "storage_at", "code_at"}) =>
      LET v == IF q.op = "code_at" THEN q.env.code ELSE q.env.val
          read == IF q.op = "code_at" THEN "code" ELSE q.op
      IN /\ GuardFails =>
              /\ q.res = RpcErr("UnknownBlock")
              /\ StateRequests = {}
         /\ q.num.bn # "Pending" => q.reqs[1].m = "block_status"
         /\ ~GuardFails =>
              /\ q.reqs[Len(q.reqs)] = Req(read, get_state(q.num))
              /\ Cardinality(StateRequests) = 1
              /\ ~v.some => q.res = RpcErr("StatePruned")
              /\ v.some => q.res.t = "Ok"
              /\ (v.some /\ q.op # "code_at") => q.res = RpcOk(v.v)
              /\ (v.some /\ q.op = "code_at" /\ v.has) => q.res = RpcOk(v.v)

\* a balance call on an unknown block was refused without a state read
C6_Witness ==
    /\ q.pc = "done" /\ q.op = "balance" /\ GuardFails
    /\ q.env.val.some
    /\ q.res = RpcErr("UnknownBlock")

\* C7: transaction_count(Pending) makes no block_status request, reads the
\* nonce at Latest and fails with Database when it is missing; every other
\* block number is guarded first and a missing nonce gives StatePruned
C7_TransactionCount ==
    (q.pc = "done" /\ q.op = "transaction_count") =>
      /\ q.num.bn = "Pending" =>
           /\ q.reqs = <<Req("nonce", Latest)>>
           /\ ~q.env.val.some => q.res = RpcErr("Database")
           /\ q.env.val.some => q.res = RpcOk(q.env.val.v)
      /\ q.num.bn # "Pending" =>
           /\ q.reqs[1].m = "block_status"
           /\ GuardFails => q.res = RpcErr("UnknownBlock") /\ Len(q.reqs) = 1
           /\ (~GuardFails /\ ~q.env.val.some) => q.res = RpcErr("StatePruned")

\* transaction_count(Pending) failed with Database on a client that reports
\* the block as not in the chain
C7_Witness ==
    /\ q.pc = "done" /\ q.op = "transaction_count"
    /\ q.num = Pending /\ ~q.env.val.some /\ q.env.status # "InChain"
    /\ q.res = RpcErr("Database")

\* ------------------------------------------------------------------------
\* Properties of the delivery tasks
\* ------------------------------------------------------------------------
\* the tasks of one batch for one subscriber that reached the sink did so in
\* the order they were spawned
InSpawnOrder(tasks) ==
    \A i, j \in 1..Len(tasks) :
        (i < j /\ tasks[i].sub = tasks[j].sub
               /\ tasks[i].st = "sent" /\ tasks[j].st = "sent")
        => tasks[i].at < tasks[j].at

\* C13 as stated: under every schedule of the delivery tasks the header
\* events of a batch reach a sink in block order and the log events in the
\* order the client returned them
C13_DeliveredInOrder ==
    InSpawnOrder(nhSpawned) /\ InSpawnOrder(nlSpawned)

\* C14: notify_heads and notify_logs never wait for a delivery task: while
\* an invocation runs, its next step (the next spawn, or the return) is
\* enabled whatever the state of the tasks spawned so far
C14_DispatchNeverWaits ==
    /\ nh.pc = "run" => ENABLED (NotifyHeadsSpawn \/ NotifyHeadsEnd)
    /\ nl.pc = "run" => ENABLED (NotifyLogsStep \/ NotifyLogsEnd)

\* notify_heads has returned although the first subscriber's delivery has
\* not run, and it spawned the events of another subscriber after it
C14_Witness ==
    /\ nh.pc = "idle" /\ Len(nhSpawned) >= 2
    /\ nhSpawned[1].st = "spawned"
    /\ \E j \in 2..Len(nhSpawned) :
         nhSpawned[j].sub # nhSpawned[1].sub /\ nhSpawned[j].st = "sent"

\* a task of the batch fails in this step
HeadTaskFails(i) ==
    /\ i <= Len(nhSpawned') /\ Len(nhSpawned') = Len(nhSpawned)
    /\ nhSpawned[i].st = "spawned" /\ nhSpawned'[i].st = "failed"
LogTaskFails(i) ==
    /\ i <= Len(nlSpawned') /\ Len(nlSpawned') = Len(nlSpawned)
    /\ nlSpawned[i].st = "spawned" /\ nlSpawned'[i].st = "failed"

\* C15: a failed delivery leaves the dispatcher, both collections, every
\* sink and every other task as they were; the subscriber stays registered
C15_FailureSwallowed ==
    [][/\ \A i \in 1..Len(nhSpawned) : HeadTaskFails(i) =>
            /\ heads' = heads /\ logs' = logs /\ nh' = nh /\ nl' = nl
            /\ sinks' = sinks /\ nlSpawned' = nlSpawned
            /\ \A j \in 1..Len(nhSpawned) : j # i => nhSpawned'[j] = nhSpawned[j]
       /\ \A i \in 1..Len(nlSpawned) : LogTaskFails(i) =>
            /\ heads' = heads /\ logs' = logs /\ nh' = nh /\ nl' = nl
            /\ sinks' = sinks /\ nhSpawned' = nhSpawned
            /\ \A j \in 1..Len(nlSpawned) : j # i => nlSpawned'[j] = nlSpawned[j]
      ]_vars

\* a subscriber whose delivery failed in an earlier notification has been
\* iterated again by the next one, next to a subscriber that was served
C15_Witness ==
    /\ \E i \in 1..Len(nhSpawned) :
         /\ nhSpawned[i].sub \in warned
         /\ nhSpawned[i].st = "spawned"
         /\ \A j \in 1..Len(nhSpawned) :
              nhSpawned[j].sub = nhSpawned[i].sub => nhSpawned[j].st # "failed"
    /\ \E s \in heads \ warned : Len(sinks[s]) > 0

\* ------------------------------------------------------------------------
\* Properties of the block references of the state queries
\* ------------------------------------------------------------------------
\* what operation op answers for block number num when the client answers env
Outcome(op, env, num) ==
    IF op = "balance" THEN balance(env, num)
    ELSE IF op = "storage_at" THEN storage_at(env, num)
    ELSE IF op = "code_at" THEN code_at(env, num)
    ELSE IF op = "call" THEN call(env, num)
    ELSE estimate_gas(env, num)

PendingOps == {"balance", "storage_at", "code_at", "call", "estimate_gas"}
GuardedOps == {"balance", "storage_at", "code_at"}
IsGuardRequest(r) == r.m = "block_status"

\* C16 as stated: in every backend state each of the five operations answers
\* Pending with the outcome it answers Latest with
C16_Original ==
    (q.pc = "done" /\ q.op \in PendingOps /\ q.num = Pending)
    => q.res = Outcome(q.op, q.env, BnLatest).res

\* C16 (amended): with Pending each of the five operations reads the state
\* at the latest block, exactly as with Latest, but never runs the guard.
\* The outcome equals the outcome for Latest for call and estimate_gas in
\* every backend state, and for balance, storage_at and code_at when the
\* backend reports the latest block as in-chain; when it does not, Latest
\* answers UnknownBlock while Pending answers the outcome of the state read
C16_PendingReadsLatest ==
    (q.pc = "done" /\ q.op \in PendingOps /\ q.num = Pending)
    => LET latest == Outcome(q.op, q.env, BnLatest)
           inChain == Outcome(q.op, [q.env EXCEPT !.status = "InChain"],
                              BnLatest)
       IN /\ q.res = inChain.res
          /\ q.reqs = SelectSeq(inChain.reqs, LAMBDA r : ~IsGuardRequest(r))
          /\ (q.op \notin GuardedOps \/ q.env.status = "InChain")
               => q.res = latest.res
          /\ (q.op \in GuardedOps /\ q.env.status # "InChain")
               => /\ latest.res = RpcErr("UnknownBlock")
                  /\ q.res # latest.res

\* balance was asked at Pending while the backend does not report the latest
\* block as in-chain, and it answered the balance read at the latest block
C16_Witness ==
    /\ q.pc = "done" /\ q.op = "balance" /\ q.num = Pending
    /\ q.env.status = "Unknown"
    /\ q.res.t = "Ok"
    /\ q.reqs = <<Req("balance", Latest)>>

\* C17: estimate_gas issues the requests call issues up to the execution
\* step and fails where call fails with the same error; when both reach the
\* execution step estimate_gas answers the client's amount or its error
C17_EstimateGasAsCall ==
    (q.pc = "done" /\ q.op = "estimate_gas")
    => LET c == call(q.env, q.num)
           n == Len(q.reqs)
       IN /\ Len(c.reqs) = n
          /\ \A i \in 1..n :
               (q.reqs[i].m # "estimate_gas" \/ c.reqs[i].m # "call")
               => q.reqs[i] = c.reqs[i]
          /\ IF n > 0 /\ c.reqs[n].m = "call"
             THEN /\ q.reqs[n] = Req("estimate_gas", c.reqs[n].id)
                  /\ q.res = IF q.env.exec = "Err" THEN RpcErr("Call")
                             ELSE RpcOk(q.env.out)
             ELSE /\ q.res = c.res
                  /\ q.res.t = "Err"
                  /\ \A i \in 1..n : q.reqs[i].m # "estimate_gas"

\* estimate_gas at a block number failed on the header that does not decode,
\* after the state was acquired, as call does
C17_Witness ==
    /\ q.pc = "done" /\ q.op = "estimate_gas" /\ q.num = Num(1)
    /\ q.res = RpcErr("Decode")
    /\ q.reqs = <<Req("state_at", Number(1)), Req("block_header", Number(1))>>

\* C18: the guard of a state read sends no block_status request for Pending
\* and never fails for it; for every other block number it first asks the
\* status of that block and fails with UnknownBlock exactly when the status
\* is not InChain
C18_CheckKnown ==
    (q.pc = "done" /\ q.op \in GuardedOps)
    => IF q.num = Pending
       THEN /\ \A i \in 1..Len(q.reqs) : ~IsGuardRequest(q.reqs[i])
            /\ q.res # RpcErr("UnknownBlock")
       ELSE /\ Len(q.reqs) >= 1
            /\ q.reqs[1] = Req("block_status", block_number_to_id(q.num))
            /\ \A i \in 2..Len(q.reqs) : ~IsGuardRequest(q.reqs[i])
            /\ (q.res = RpcErr("UnknownBlock")) <=> (q.env.status # "InChain")

\* storage_at at the earliest block was refused because the block is only
\* queued for import
C18_Witness ==
    /\ q.pc = "done" /\ q.op = "storage_at" /\ q.num = BnEarliest
    /\ q.env.status = "Queued"
    /\ q.res = RpcErr("UnknownBlock")
    /\ q.reqs = <<Req("block_status", Earliest)>>

\* ------------------------------------------------------------------------
\* Properties of subscribe for newPendingTransactions and logs
\* ------------------------------------------------------------------------
\* C19: subscribe(NewPendingTransactions) without parameters is not rejected,
\* assigns no id and leaves both collections as they were; every subscriber
\* registered and every event scheduled by notify_heads or notify_logs
\* belongs to an id that a NewHeads or Logs subscribe assigned
C19_PendingTransactionsNoOp ==
    [][/\ Subscribe("NewPendingTransactions", Absent)
            => /\ subRes'.out = "dropped"
               /\ heads' = heads /\ logs' = logs /\ nextId' = nextId
               /\ nhSpawned' = nhSpawned /\ nlSpawned' = nlSpawned
       /\ heads' \cup DOMAIN logs' \subseteq 1..(nextId' - 1)
       /\ \A i \in 1..Len(nhSpawned') :
            nhSpawned'[i].sub \in 1..(nextId' - 1)
       /\ \A i \in 1..Len(nlSpawned') :
            nlSpawned'[i].sub \in 1..(nextId' - 1)]_vars

\* the last subscribe was the newPendingTransactions one; notify_heads and
\* notify_logs have run to their end with subscribers of both kinds
C19_Witness ==
    /\ subRes.kind = "NewPendingTransactions" /\ subRes.out = "dropped"
    /\ nh.pc = "idle" /\ nl.pc = "idle"
    /\ heads # {} /\ DOMAIN logs # {}
    /\ \A s \in heads : \E i \in 1..Len(nhSpawned) : nhSpawned[i].sub = s
    /\ \A s \in DOMAIN logs : \E i \in 1..Len(nlSpawned) : nlSpawned[i].sub = s

\* C20: subscribe(Logs) with a filter adds one entry, the filter under an id
\* that was in neither collection, and leaves the other entries and the
\* heads collection as they were; subscribe(Logs) without a filter is
\* rejected with InvalidParams and leaves both collections as they were
C20_SubscribeLogs ==
    [][/\ \A f \in Filters :
            Subscribe("Logs", ParamsLogs(f))
            => /\ subRes'.out = "assigned"
               /\ subRes'.id \notin DOMAIN logs \cup heads
               /\ DOMAIN logs' = DOMAIN logs \cup {subRes'.id}
               /\ logs'[subRes'.id] = f
               /\ \A i \in DOMAIN logs : logs'[i] = logs[i]
               /\ heads' = heads
       /\ \A p \in {Absent, ParamsNone} :
            Subscribe("Logs", p)
            => /\ subRes'.out = "InvalidParams"
               /\ heads' = heads /\ logs' = logs /\ nextId' = nextId]_vars

\* subscribe(Logs) without parameters was rejected after two subscriptions
\* with a filter were registered
C20_Witness ==
    /\ subRes.kind = "Logs" /\ subRes.params = "Absent"
    /\ subRes.out = "InvalidParams"
    /\ Cardinality(DOMAIN logs) = 2

\* ------------------------------------------------------------------------
\* Properties of transactions and of block-number resolution
\* ------------------------------------------------------------------------
SendOps == {"send_raw_transaction", "submit_transaction"}

\* C21: send_raw_transaction and submit_transaction answer a Call error when
\* the client rejects the bytes and the client's hash otherwise, after one
\* request to the client; the call changes neither subscriber collection
C21_SendRawTransaction ==
    [][(q.pc = "idle" /\ q'.pc = "done" /\ q'.op \in SendOps)
       => /\ q'.res = IF q'.env.exec = "Err" THEN RpcErr("Call")
                      ELSE RpcOk(q'.env.out)
          /\ q'.reqs = <<Req("send_raw_transaction", RawBytes)>>
          /\ heads' = heads /\ logs' = logs]_vars

\* submit_transaction was refused with a Call error while subscribers of
\* both kinds were registered
C21_Witness ==
    /\ q.pc = "done" /\ q.op = "submit_transaction"
    /\ q.env.exec = "Err" /\ q.res = RpcErr("Call")
    /\ heads # {} /\ DOMAIN logs # {}

\* the block id the resolution rule gives for a block number
ResolvedKey(num) ==
    IF num.bn = "Num" THEN Number(num.n)
    ELSE IF num.bn = "Earliest" THEN Earliest
    ELSE Latest

ResolvingOps == {"balance", "storage_at", "code_at", "block_by_number",
                 "call", "estimate_gas"}

\* C22: in balance, storage_at, code_at (get_state), block_by_number
\* (rich_block), call and estimate_gas every request after the guard names
\* the block Number(n) for Num(n), earliest for Earliest and latest for
\* Latest and for Pending; unless the call was refused before resolution
\* (guard, signing) such a request is made, for every block number
C22_ResolutionTotal ==
    (q.pc = "done" /\ q.op \in ResolvingOps)
    => /\ \A i \in StateRequests : q.reqs[i].id = ResolvedKey(q.num)
       /\ (q.res \notin {RpcErr("UnknownBlock"), RpcErr("SignCall")})
            => StateRequests # {}
       /\ q.num \in {Pending, BnLatest}
            => \A i \in StateRequests : q.reqs[i].id = Latest

\* block_by_number at Pending asked the client for the latest block
C22_Witness ==
    /\ q.pc = "done" /\ q.op = "block_by_number" /\ q.num = Pending
    /\ q.reqs = <<Req("block", Latest)>>
    /\ q.res = RpcOk(q.env.val) /\ q.env.val.some

\* C27: transaction_by_block_number_and_index answers None for Pending
\* without a request to the client; for every other block number it makes
\* one transaction lookup at that block and answers what the client answers
C27_TransactionAtPending ==
    (q.pc = "done" /\ q.op = "transaction_by_block_number_and_index")
    => IF q.num = Pending
       THEN q.res = RpcOk(None) /\ q.reqs = <<>>
       ELSE /\ q.res = RpcOk(q.env.val)
            /\ Len(q.reqs) = 1
            /\ q.reqs[1].m = "transaction"
            /\ q.reqs[1].id.block = ResolvedKey(q.num)
            /\ q.reqs[1].id.n \in Indexes

\* the lookup at Pending answered None although the client holds a
\* transaction at the asked index of the latest block
C27_Witness ==
    /\ q.pc = "done" /\ q.op = "transaction_by_block_number_and_index"
    /\ q.num = Pending /\ q.env.val.some
    /\ q.res = RpcOk(None) /\ q.reqs = <<>>

\* ------------------------------------------------------------------------
\* Properties of the header events of one notification
\* ------------------------------------------------------------------------
\* "0x" followed by two zero digits for each of `size` bytes
IsZeroHex(str, size) ==
    /\ Len(str) = 1 + 2 * size
    /\ str[1] = "0x"
    /\ \A i \in 2..Len(str) : str[i] = "0"

\* C23: when a notify_heads invocation with k headers returns, it has
\* spawned k*n tasks for the n head subscribers registered, one for every
\* pair of subscriber and header, each with mixHash and nonce holding "0x"
\* and the zero digits of 32 and of 8 bytes
C23_OneTaskPerPair ==
    [][(nh.pc = "run" /\ nh'.pc = "idle")
       => /\ Len(nhSpawned') = nh.k * Cardinality(heads')
          /\ \A s \in heads', h \in 1..nh.k :
               Cardinality({i \in 1..Len(nhSpawned') :
                              /\ nhSpawned'[i].sub = s
                              /\ nhSpawned'[i].header = h}) = 1
          /\ \A i \in 1..Len(nhSpawned') :
               /\ IsZeroHex(nhSpawned'[i].extra_info.mixHash, 32)
               /\ IsZeroHex(nhSpawned'[i].extra_info.nonce, 8)]_vars

\* an invocation with two headers has returned with two head subscribers
\* registered and four tasks spawned
C23_Witness ==
    /\ nh.pc = "idle" /\ nh.k = 2
    /\ Cardinality(heads) = 2
    /\ Len(nhSpawned) = 4
    /\ us.pc = "idle"

\* ------------------------------------------------------------------------
\* Properties of the stored log filters
\* ------------------------------------------------------------------------
\* C24: no step changes the filter stored for a subscriber, so it stays the
\* filter given at subscribe; an iteration of notify_logs with range (F, T)
\* executes a filter whose from_block is F when the stored from_block is
\* Latest and whose to_block is T when the stored to_block is Latest
C24_LatestNotCached ==
    [][/\ \A i \in DOMAIN logs : i \in DOMAIN logs' /\ logs'[i] = logs[i]
       /\ (nl.pc = "run" /\ nl'.pc = "run" /\ nl'.si = nl.si + 1)
          => /\ nlQuery'.stored = logs'[nlQuery'.sub]
             /\ nlQuery'.from_block = nl.from_block
             /\ nlQuery'.to_block = nl.to_block
             /\ nlQuery'.stored.from_block = Latest
                  => nlQuery'.filter.from_block = nl.from_block
             /\ nlQuery'.stored.to_block = Latest
                  => nlQuery'.filter.to_block = nl.to_block]_vars

\* a notification has begun after an earlier one, with another range,
\* executed a filter stored with both bounds Latest; the stored filter still
\* has both bounds Latest
C24_Witness ==
    /\ nl.pc = "run" /\ nl.si = 1
    /\ nlQuery.valid
    /\ nlQuery.stored = NoFilter
    /\ nlQuery.filter = [from_block |-> nlQuery.from_block,
                         to_block |-> nlQuery.to_block]
    /\ nlQuery.from_block # nl.from_block
    /\ nlQuery.sub \in DOMAIN logs /\ logs[nlQuery.sub] = NoFilter

\* ------------------------------------------------------------------------
\* Properties of the delivery tasks and unsubscribe
\* ------------------------------------------------------------------------
\* C25: a task that is spawned and has not run stays on the remote through
\* every step, unsubscribe included, until it runs; when it runs with the
\* transport taking the message, its event is appended to the sink even
\* though unsubscribe has returned true for its subscriber
C25_NeverCancelled ==
    [][\A i \in 1..Len(nhSpawned) :
         nhSpawned[i].st = "spawned"
         => /\ i <= Len(nhSpawned')
            /\ nhSpawned'[i].sub = nhSpawned[i].sub
            /\ nhSpawned'[i].header = nhSpawned[i].header
            /\ nhSpawned'[i].st = "sent"
                 => sinks'[nhSpawned[i].sub] =
                      Append(sinks[nhSpawned[i].sub],
                             HeaderEvent(nhSpawned[i].header))]_vars

\* unsubscribe has returned true for a subscriber after the notification
\* began; a task spawned for it before has not run yet and the remote may
\* run it
C25_Witness ==
    \E i \in 1..Len(nhSpawned) :
        /\ nhSpawned[i].st = "spawned"
        /\ nhSpawned[i].sub \in unsubTrue \ nh.after
        /\ nhSpawned[i].sub \notin heads
        /\ us.pc = "idle"
        /\ ENABLED RunHeadTask(i, TRUE)

\* ------------------------------------------------------------------------
\* Progress of the registry operations
\* ------------------------------------------------------------------------
\* C26: every subscribe call that was made runs, every unsubscribe call that
\* has done its first removal returns, and every notify_heads and
\* notify_logs invocation that began returns
C26_EveryCallCompletes ==
    /\ (subRes.out = "called") ~> (subRes.out # "called")
    /\ (us.pc = "logs") ~> (us.pc = "idle")
    /\ (nh.pc = "run") ~> (nh.pc = "idle")
    /\ (nl.pc = "run") ~> (nl.pc = "idle")

\* all four operations are in flight at once: a subscribe call waits, an
\* unsubscribe call is between its two removals, and both notifications
\* hold their read lock
C26_Witness ==
    /\ subRes.out = "called"
    /\ us.pc = "logs"
    /\ nh.pc = "run" /\ nl.pc = "run"
    /\ heads # {} \/ DOMAIN logs # {}

====
